---- MODULE Spec2Model ----
(***************************************************************************)
(* va_config.db: the provisioning procedure init_db (db_init.py) and the   *)
(* relational schema of models.py, as state machines over a PostgreSQL     *)
(* backend.                                                                *)
(*                                                                         *)
(*   Spec         one caller invoking init_db repeatedly                   *)
(*   SpecOverlap  two callers invoking init_db concurrently                *)
(*   SpecData     sessions inserting and deleting rows of the tables       *)
(*   SpecDefaults inserts into project_table under a running clock         *)
(***************************************************************************)
EXTENDS Integers, Sequences, FiniteSets

VARIABLES
    db,         \* committed backend catalog: extensions, namespaces, tables, ...
    pc,         \* pc[r]: position of invocation r inside init_db
    tx,         \* tx[r]: catalog objects created by r's open transaction
    toCreate,   \* toCreate[r]: tables create_all decided to create
    err,        \* err[r]: the exception init_db raised to its caller
    printed,    \* printed[r]: the success line was printed
    runs,       \* runs[r]: invocations started by caller r
    startDb,    \* history: db when the current invocation started
    injected,   \* history: the backend refused a statement of this invocation
    failedAt,   \* history: the step (1..4) whose statement failed, 0 if none
    trace,      \* history: steps and commits executed by this invocation
    prevRun,    \* history: outcome of the caller's last finished invocation
    basis,      \* history: prevRun as it was when the current invocation started
    rows,       \* rows[t]: committed rows of table t, as tuples of key columns
    projectCols, \* projectCols[p]: the stored columns of project_table row p
    now,        \* the backend clock (CURRENT_TIMESTAMP), in days
    nextAttrId, \* next value of the attribute_id sequence
    sess,       \* the ORM session that deletes: statements to flush, rows deleted
    last,       \* outcome of the last statement or commit on the tables
    inserted    \* history: per project row, insertion time and supplied columns

provVars == <<db, pc, tx, toCreate, err, printed, runs, startDb, injected,
              failedAt, trace, prevRun, basis>>

dataVars == <<rows, projectCols, now, nextAttrId, sess, last, inserted>>

vars == <<provVars, dataVars>>

-----------------------------------------------------------------------------
(* Bounds *)

MaxRuns == 2

MaxClock == 2

MaxAttrId == 2

ProjectIds == {1, 2}

CameraIds == {10}

FromTimes == {0}

ObjectIds == {7}

Runners == {1, 2}

-----------------------------------------------------------------------------
(* The schema registered on Base.metadata (models.py) *)

\* Base.metadata.sorted_tables: parents before the tables that reference them.
MetadataTables ==
    << "detections_gis", "project_table", "project_camera",
       "project_camera_timestamps", "unique_objects",
       "unique_object_attributes", "video_jobs" >>

TableNames == { MetadataTables[i] : i \in 1..Len(MetadataTables) }

\* Primary-key and foreign-key constraints CREATE TABLE emits for each table.
TableKeys(t) ==
    CASE t = "detections_gis" -> {"detections_gis_pkey"}
      [] t = "project_table" -> {"project_table_pkey"}
      [] t = "project_camera" -> {"project_camera_pkey", "project_camera_project_id_fkey"}
      [] t = "project_camera_timestamps" -> {"pctime_pkey", "project_camera_timestamps_project_id_fkey"}
      [] t = "unique_objects" -> {"unique_objects_pkey"}
      [] t = "unique_object_attributes" ->
            {"unique_object_attributes_pkey", "unique_object_attributes_object_id_fkey"}
      [] t = "video_jobs" -> {"video_jobs_pkey"}

\* Index(...) entries of __table_args__, created right after their table.
TableIndexes(t) ==
    CASE t = "detections_gis" ->
            {"ix_detections_gis_ts", "ix_detections_gis_object_id",
             "idx_detections_gis_bbox_gist"}
      [] t = "unique_object_attributes" -> {"idx_uo_attr_object", "idx_uo_attr_name"}
      [] OTHER -> {}

\* Tables whose column types come from an extension (Geometry: postgis).
RequiredExtension(t) ==
    IF t = "detections_gis" THEN {"postgis"} ELSE {}

-----------------------------------------------------------------------------
(* Backend catalogs *)

EmptyDb ==
    [extensions |-> {}, namespaces |-> {}, tables |-> {}, keys |-> {},
     indexes |-> {}, hypertables |-> {}]

DbUnion(a, b) ==
    [extensions |-> a.extensions \cup b.extensions,
     namespaces |-> a.namespaces \cup b.namespaces,
     tables |-> a.tables \cup b.tables,
     keys |-> a.keys \cup b.keys,
     indexes |-> a.indexes \cup b.indexes,
     hypertables |-> a.hypertables \cup b.hypertables]

\* What invocation r sees: committed objects and those of its own transaction.
Visible(r) == DbUnion(db, tx[r])

\* TRUE when another open transaction holds an uncommitted object of `field`
\* named x: the statement creating x waits for that transaction to end.
HeldByOther(r, field, x) ==
    \E o \in Runners \ {r} : x \in tx[o][field]

-----------------------------------------------------------------------------
(* Exceptions *)

\* DBAPI exception classes the driver raises for a refused statement.
Exceptions == {"ProgrammingError", "OperationalError"}

NoStatement == [sql |-> "none", object |-> "none"]

NoError == [type |-> "none", statement |-> NoStatement, message |-> "none"]

\* sqlalchemy.exc.DBAPIError carries the statement that failed.
DBAPIError(cls, stmt) ==
    [type |-> cls, statement |-> stmt, message |-> "backend detail"]

RuntimeError(msg) ==
    [type |-> "RuntimeError", statement |-> NoStatement, message |-> msg]

ExtensionHandler_Swallow(e) == NoError

\* try/except around the two CREATE EXTENSION statements: what leaves the
\* block when a statement raised e (NoError: nothing, execution continues).
ExtensionHandler(e) ==
    IF e.type = "ProgrammingError"
    THEN RuntimeError("Failed to create required extensions (postgis/timescaledb)")
    ELSE e

StmtPostgis == [sql |-> "CREATE EXTENSION IF NOT EXISTS", object |-> "postgis"]

StmtTimescaledb == [sql |-> "CREATE EXTENSION IF NOT EXISTS", object |-> "timescaledb"]

StmtSchema == [sql |-> "CREATE SCHEMA IF NOT EXISTS", object |-> "public"]

StmtCreateTable(t) == [sql |-> "CREATE TABLE", object |-> t]

StmtHypertable == [sql |-> "SELECT create_hypertable", object |-> "detections_gis"]

\* The step of the protocol a statement belongs to.
StepOfStatement(s) ==
    CASE s.sql = "CREATE EXTENSION IF NOT EXISTS" -> 1
      [] s.sql = "CREATE SCHEMA IF NOT EXISTS" -> 2
      [] s.sql = "CREATE TABLE" -> 3
      [] s.sql = "SELECT create_hypertable" -> 4
      [] OTHER -> 0

\* The step an exception names to the caller: the RuntimeError by its
\* message, a DBAPIError by the statement it carries.
StepNamed(e) ==
    IF e.type = "RuntimeError" THEN 1 ELSE StepOfStatement(e.statement)

-----------------------------------------------------------------------------
(* Building blocks of init_db *)

\* CREATE ... IF NOT EXISTS x, in a transaction that sees vis and has created t.
CreateIfNotExists(vis, t, field, x) ==
    IF x \in vis[field] THEN t ELSE [t EXCEPT ![field] = @ \cup {x}]

OnExceptionExit_Commit(d, t) == DbUnion(d, t)

\* Leaving `with engine.connect()` / `engine.begin()` on an exception closes
\* the connection: the open transaction t is rolled back.
OnExceptionExit(d, t) == d

TablesToCreate_NoCheck(vis) == MetadataTables

\* create_all(engine), checkfirst=True: the tables has_table() reports absent.
TablesToCreate(vis) ==
    SelectSeq(MetadataTables, LAMBDA t : t \notin vis.tables)

HypertableIfNotExists_Off == FALSE

\* if_not_exists => TRUE in the create_hypertable call.
HypertableIfNotExists == TRUE

Append1(r, ev) == [trace EXCEPT ![r] = Append(@, ev)]

\* Statement of step `step` raised e in invocation r; env tells whether the
\* backend refused it (privilege, configuration, connection) or the statement
\* conflicted with the catalog.
Raise(r, e, step, env) ==
    /\ pc' = [pc EXCEPT ![r] = "raised"]
    /\ err' = [err EXCEPT ![r] = e]
    /\ failedAt' = [failedAt EXCEPT ![r] = step]
    /\ injected' = [injected EXCEPT ![r] = @ \/ env]
    /\ db' = OnExceptionExit(db, tx[r])
    /\ tx' = [tx EXCEPT ![r] = EmptyDb]
    /\ toCreate' = [toCreate EXCEPT ![r] = <<>>]
    /\ UNCHANGED <<printed, runs, startDb, prevRun, basis>>

\* A statement of the try block raised DBAPIError e.
ExtensionRaised(r, e, next) ==
    LET out == ExtensionHandler(e) IN
    IF out = NoError
    THEN /\ pc' = [pc EXCEPT ![r] = next]
         /\ failedAt' = [failedAt EXCEPT ![r] = 1]
         /\ injected' = [injected EXCEPT ![r] = TRUE]
         /\ UNCHANGED <<db, tx, toCreate, err, printed, runs, startDb, prevRun, basis>>
    ELSE Raise(r, out, 1, TRUE)

-----------------------------------------------------------------------------
(* init_db, one action per statement *)

InitCallers ==
    /\ pc = [r \in Runners |-> "idle"]
    /\ tx = [r \in Runners |-> EmptyDb]
    /\ toCreate = [r \in Runners |-> <<>>]
    /\ err = [r \in Runners |-> NoError]
    /\ printed = [r \in Runners |-> FALSE]
    /\ runs = [r \in Runners |-> 0]
    /\ startDb = [r \in Runners |-> EmptyDb]
    /\ injected = [r \in Runners |-> FALSE]
    /\ failedAt = [r \in Runners |-> 0]
    /\ trace = [r \in Runners |-> <<>>]
    /\ prevRun = [r \in Runners |-> [outcome |-> "none", step |-> 0]]
    /\ basis = [r \in Runners |-> [outcome |-> "none", step |-> 0]]

\* init_db(DATABASE_URL) is called: create_engine, engine.connect().
Begin(r) ==
    /\ pc[r] = "idle"
    /\ runs[r] < MaxRuns
    /\ pc' = [pc EXCEPT ![r] = "ext_postgis"]
    /\ runs' = [runs EXCEPT ![r] = @ + 1]
    /\ startDb' = [startDb EXCEPT ![r] = db]
    /\ basis' = [basis EXCEPT ![r] = prevRun[r]]
    /\ err' = [err EXCEPT ![r] = NoError]
    /\ printed' = [printed EXCEPT ![r] = FALSE]
    /\ injected' = [injected EXCEPT ![r] = FALSE]
    /\ failedAt' = [failedAt EXCEPT ![r] = 0]
    /\ trace' = [trace EXCEPT ![r] = <<>>]
    /\ UNCHANGED <<db, tx, toCreate, prevRun>>
    /\ UNCHANGED dataVars

\* conn.execute(text("CREATE EXTENSION IF NOT EXISTS postgis;"))
ExtPostgis(r) ==
    /\ pc[r] = "ext_postgis"
    /\ trace' = Append1(r, "s1")
    /\ \/ \E cls \in Exceptions :
            ExtensionRaised(r, DBAPIError(cls, StmtPostgis), "ext_timescaledb")
       \/ /\ ~HeldByOther(r, "extensions", "postgis")
          /\ tx' = [tx EXCEPT ![r] =
                        CreateIfNotExists(Visible(r), @, "extensions", "postgis")]
          /\ pc' = [pc EXCEPT ![r] = "ext_timescaledb"]
          /\ UNCHANGED <<db, toCreate, err, printed, runs, startDb, injected,
                         failedAt, prevRun, basis>>
    /\ UNCHANGED dataVars

\* conn.execute(text("CREATE EXTENSION IF NOT EXISTS timescaledb;"))
ExtTimescaledb(r) ==
    /\ pc[r] = "ext_timescaledb"
    /\ trace' = Append1(r, "s1")
    /\ \/ \E cls \in Exceptions :
            ExtensionRaised(r, DBAPIError(cls, StmtTimescaledb), "schema")
       \/ /\ ~HeldByOther(r, "extensions", "timescaledb")
          /\ tx' = [tx EXCEPT ![r] =
                        CreateIfNotExists(Visible(r), @, "extensions", "timescaledb")]
          /\ pc' = [pc EXCEPT ![r] = "schema"]
          /\ UNCHANGED <<db, toCreate, err, printed, runs, startDb, injected,
                         failedAt, prevRun, basis>>
    /\ UNCHANGED dataVars

\* conn.execute(text("CREATE SCHEMA IF NOT EXISTS public;"))
EnsureSchema(r) ==
    /\ pc[r] = "schema"
    /\ trace' = Append1(r, "s2")
    /\ \/ \E cls \in Exceptions : Raise(r, DBAPIError(cls, StmtSchema), 2, TRUE)
       \/ /\ ~HeldByOther(r, "namespaces", "public")
          /\ tx' = [tx EXCEPT ![r] =
                        CreateIfNotExists(Visible(r), @, "namespaces", "public")]
          /\ pc' = [pc EXCEPT ![r] = "commit_conn"]
          /\ UNCHANGED <<db, toCreate, err, printed, runs, startDb, injected,
                         failedAt, prevRun, basis>>
    /\ UNCHANGED dataVars

\* conn.commit() of the first connection, then the with block closes it.
CommitConn(r) ==
    /\ pc[r] = "commit_conn"
    /\ db' = DbUnion(db, tx[r])
    /\ tx' = [tx EXCEPT ![r] = EmptyDb]
    /\ trace' = Append1(r, "commit")
    /\ pc' = [pc EXCEPT ![r] = "create_all"]
    /\ UNCHANGED <<toCreate, err, printed, runs, startDb, injected, failedAt,
                   prevRun, basis>>
    /\ UNCHANGED dataVars

\* Base.metadata.create_all(engine): engine.begin(), then the existence
\* checks of every table of the metadata.
CreateAllCheck(r) ==
    /\ pc[r] = "create_all"
    /\ toCreate' = [toCreate EXCEPT ![r] = TablesToCreate(Visible(r))]
    /\ trace' = Append1(r, "s3")
    /\ pc' = [pc EXCEPT ![r] = "create_table"]
    /\ UNCHANGED <<db, tx, err, printed, runs, startDb, injected, failedAt,
                   prevRun, basis>>
    /\ UNCHANGED dataVars

\* create_all: CREATE TABLE (and its CREATE INDEXes) for the next table.
CreateTable(r) ==
    /\ pc[r] = "create_table"
    /\ toCreate[r] # <<>>
    /\ LET t == Head(toCreate[r]) IN
       /\ trace' = trace
       /\ \/ \E cls \in Exceptions :
               Raise(r, DBAPIError(cls, StmtCreateTable(t)), 3, TRUE)
          \/ /\ t \in Visible(r).tables \/ ~(RequiredExtension(t) \subseteq Visible(r).extensions)
             /\ ~HeldByOther(r, "tables", t)
             /\ Raise(r, DBAPIError("ProgrammingError", StmtCreateTable(t)), 3, FALSE)
          \/ /\ t \notin Visible(r).tables
             /\ RequiredExtension(t) \subseteq Visible(r).extensions
             /\ ~HeldByOther(r, "tables", t)
             /\ tx' = [tx EXCEPT ![r].tables = @ \cup {t},
                                 ![r].keys = @ \cup TableKeys(t),
                                 ![r].indexes = @ \cup TableIndexes(t)]
             /\ toCreate' = [toCreate EXCEPT ![r] = Tail(@)]
             /\ UNCHANGED <<db, pc, err, printed, runs, startDb, injected,
                            failedAt, prevRun, basis>>
    /\ UNCHANGED dataVars

\* create_all: engine.begin() commits when the block ends.
CommitCreateAll(r) ==
    /\ pc[r] = "create_table"
    /\ toCreate[r] = <<>>
    /\ db' = DbUnion(db, tx[r])
    /\ tx' = [tx EXCEPT ![r] = EmptyDb]
    /\ trace' = Append1(r, "commit")
    /\ pc' = [pc EXCEPT ![r] = "hypertable"]
    /\ UNCHANGED <<toCreate, err, printed, runs, startDb, injected, failedAt,
                   prevRun, basis>>
    /\ UNCHANGED dataVars

\* conn.execute(text("SELECT create_hypertable('public.detections_gis'::regclass,
\* 'timestamp', if_not_exists => TRUE, migrate_data => TRUE);"))
CreateHypertable(r) ==
    /\ pc[r] = "hypertable"
    /\ trace' = Append1(r, "s4")
    /\ LET vis == Visible(r)
           callable == /\ "timescaledb" \in vis.extensions
                       /\ "detections_gis" \in vis.tables
           already == "detections_gis" \in vis.hypertables
           rejected == ~callable \/ (already /\ ~HypertableIfNotExists)
       IN
       \/ \E cls \in Exceptions : Raise(r, DBAPIError(cls, StmtHypertable), 4, TRUE)
       \/ /\ rejected
          /\ Raise(r, DBAPIError("ProgrammingError", StmtHypertable), 4, FALSE)
       \/ /\ ~rejected
          /\ ~HeldByOther(r, "hypertables", "detections_gis")
          /\ tx' = [tx EXCEPT ![r] =
                        CreateIfNotExists(vis, @, "hypertables", "detections_gis")]
          /\ pc' = [pc EXCEPT ![r] = "commit_hyper"]
          /\ UNCHANGED <<db, toCreate, err, printed, runs, startDb, injected,
                         failedAt, prevRun, basis>>
    /\ UNCHANGED dataVars

\* conn.commit() of the second connection.
CommitHypertable(r) ==
    /\ pc[r] = "commit_hyper"
    /\ db' = DbUnion(db, tx[r])
    /\ tx' = [tx EXCEPT ![r] = EmptyDb]
    /\ trace' = Append1(r, "commit")
    /\ pc' = [pc EXCEPT ![r] = "print"]
    /\ UNCHANGED <<toCreate, err, printed, runs, startDb, injected, failedAt,
                   prevRun, basis>>
    /\ UNCHANGED dataVars

\* print("Schema created successfully.")
PrintSuccess(r) ==
    /\ pc[r] = "print"
    /\ printed' = [printed EXCEPT ![r] = TRUE]
    /\ pc' = [pc EXCEPT ![r] = "done"]
    /\ UNCHANGED <<db, tx, toCreate, err, runs, startDb, injected, failedAt,
                   trace, prevRun, basis>>
    /\ UNCHANGED dataVars

\* init_db returns, or its exception reaches the caller.
Return(r) ==
    /\ pc[r] \in {"done", "raised"}
    /\ prevRun' = [prevRun EXCEPT ![r] =
                       IF pc[r] = "done" THEN [outcome |-> "success", step |-> 0]
                       ELSE [outcome |-> "failed", step |-> failedAt[r]]]
    /\ pc' = [pc EXCEPT ![r] = "idle"]
    /\ UNCHANGED <<db, tx, toCreate, err, printed, runs, startDb, injected,
                   failedAt, trace, basis>>
    /\ UNCHANGED dataVars

InitDbStep(r) ==
    \/ Begin(r)
    \/ ExtPostgis(r)
    \/ ExtTimescaledb(r)
    \/ EnsureSchema(r)
    \/ CommitConn(r)
    \/ CreateAllCheck(r)
    \/ CreateTable(r)
    \/ CommitCreateAll(r)
    \/ CreateHypertable(r)
    \/ CommitHypertable(r)
    \/ PrintSuccess(r)
    \/ Return(r)


-----------------------------------------------------------------------------
(* Properties of init_db *)

\* The catalog of a fully provisioned backend.
FullDb ==
    [extensions |-> {"postgis", "timescaledb"},
     namespaces |-> {"public"},
     tables |-> TableNames,
     keys |-> UNION { TableKeys(t) : t \in TableNames },
     indexes |-> UNION { TableIndexes(t) : t \in TableNames },
     hypertables |-> {"detections_gis"}]

\* What steps 1 and 2 create, and what step 3 creates.
ExtensionsAndNamespace ==
    [EmptyDb EXCEPT !.extensions = FullDb.extensions,
                    !.namespaces = FullDb.namespaces]

Structures ==
    [EmptyDb EXCEPT !.tables = FullDb.tables, !.keys = FullDb.keys,
                    !.indexes = FullDb.indexes]

Contains(d, part) == DbUnion(d, part) = d

Finished(r) == pc[r] \in {"done", "raised"}

IsPrefix(s, t) == Len(s) <= Len(t) /\ s = SubSeq(t, 1, Len(s))

\* The statements and commits of init_db in program order (two statements
\* in step 1).
ProgramOrder ==
    <<"s1", "s1", "s2", "commit", "s3", "commit", "s4", "commit">>

\* C1: an invocation started in the state left by a successful invocation,
\* with no statement refused by the backend, returns without an exception
\* and leaves extensions, namespace, tables, keys, indexes and hypertable
\* configuration exactly as it found them.
C1_Idempotent ==
    (Finished(1) /\ basis[1].outcome = "success" /\ ~injected[1])
        => (pc[1] = "done" /\ err[1] = NoError /\ db = startDb[1])

C1_Witness ==
    pc[1] = "done" /\ basis[1].outcome = "success" /\ startDb[1] = FullDb

\* C2: whenever a CREATE EXTENSION statement fails, whatever the cause, the
\* invocation raises the RuntimeError with the diagnostic message and no
\* later step runs or leaves an effect.
C2_ExtensionFailureAborts ==
    failedAt[1] = 1 =>
        /\ pc[1] \in {"raised", "idle"}
        /\ err[1].type = "RuntimeError"
        /\ db = startDb[1]
        /\ \A i \in 1..Len(trace[1]) : trace[1][i] = "s1"

\* C5 as stated: the steps run in order and each step's effects are
\* committed before the next step starts, so a failure of namespace ensure
\* leaves both extensions enabled.
C5_PerStepCommit ==
    /\ IsPrefix(trace[1], ProgramOrder)
    /\ pc[1] = "schema" => FullDb.extensions \subseteq db.extensions
    /\ pc[1] = "create_all" => Contains(db, ExtensionsAndNamespace)
    /\ pc[1] = "hypertable" => Contains(db, Structures)
    /\ (pc[1] = "raised" /\ failedAt[1] = 2)
          => FullDb.extensions \subseteq db.extensions

\* C5 amended: the steps run in order; steps 1 and 2 share one transaction
\* committed after namespace ensure, step 3 and step 4 commit on their own.
\* A failure in step 1 or 2 leaves the backend as the invocation found it
\* (extensions created by it are rolled back); a failure in step 3 keeps
\* extensions and namespace; a failure in step 4 keeps the structures too.
C5_CommitPoints ==
    /\ IsPrefix(trace[1], ProgramOrder)
    /\ pc[1] \in {"ext_timescaledb", "schema", "commit_conn"} => db = startDb[1]
    /\ pc[1] = "create_all" => db = DbUnion(startDb[1], ExtensionsAndNamespace)
    /\ pc[1] = "hypertable"
          => db = DbUnion(startDb[1], DbUnion(ExtensionsAndNamespace, Structures))
    /\ (pc[1] = "raised" /\ failedAt[1] \in {1, 2}) => db = startDb[1]
    /\ (pc[1] = "raised" /\ failedAt[1] = 3)
          => db = DbUnion(startDb[1], ExtensionsAndNamespace)
    /\ (pc[1] = "raised" /\ failedAt[1] = 4)
          => db = DbUnion(startDb[1], DbUnion(ExtensionsAndNamespace, Structures))
    /\ pc[1] = "done" => db = FullDb

C5_Witness ==
    /\ pc[1] = "raised"
    /\ failedAt[1] = 2
    /\ db.extensions = {}

C9_RecoveryByRerun ==
    (Finished(1) /\ basis[1].outcome = "failed" /\ ~injected[1])
        => (pc[1] = "done" /\ err[1] = NoError /\ db = FullDb)

C9_Witness ==
    /\ pc[1] = "done"
    /\ basis[1] = [outcome |-> "failed", step |-> 4]
    /\ startDb[1].tables = TableNames
    /\ startDb[1].hypertables = {}

\* C10: of two overlapping invocations neither fails because of what the
\* other created: an invocation raises only when the backend refused one of
\* its statements.
C10_OverlapNeverFails ==
    \A r \in Runners : pc[r] = "raised" => injected[r]

-----------------------------------------------------------------------------
(* The tables of models.py: keys, foreign keys, relationships *)

DataTables ==
    {"project_table", "project_camera", "project_camera_timestamps",
     "unique_objects", "unique_object_attributes"}

\* Rows are tuples of their key columns:
\*   project_table              <<project_id>>
\*   project_camera             <<project_id, camera_id>>
\*   project_camera_timestamps  <<project_id, camera_id, timestamp_from>>
\*   unique_objects             <<object_id, project_id>>
\*   unique_object_attributes   <<attribute_id, object_id, project_id>>
PrimaryKey(t, row) ==
    IF t = "unique_object_attributes" THEN <<row[1]>> ELSE row

\* The column project_id of a row of table t.
ProjectIdOf(t, row) ==
    CASE t = "unique_objects" -> row[2]
      [] t = "unique_object_attributes" -> row[3]
      [] OTHER -> row[1]

\* ForeignKeyConstraint(['project_id'], ['public.project_table.project_id'])
CameraFK ==
    [tab |-> "project_camera", cols |-> <<1>>, ref |-> "project_table",
     ondelete |-> "NO ACTION"]

CameraTimestampFK_ProjectOnly ==
    [tab |-> "project_camera_timestamps", cols |-> <<1>>, ref |-> "project_table",
     ondelete |-> "NO ACTION"]

\* ForeignKeyConstraint(['project_id', 'camera_id'],
\*     ['public.project_camera.project_id', 'public.project_camera.camera_id'])
CameraTimestampFK ==
    [tab |-> "project_camera_timestamps", cols |-> <<1, 2>>,
     ref |-> "project_camera", ondelete |-> "NO ACTION"]

AttributeFK_NoAction ==
    [tab |-> "unique_object_attributes", cols |-> <<2, 3>>,
     ref |-> "unique_objects", ondelete |-> "NO ACTION"]

\* ForeignKeyConstraint(["object_id", "project_id"],
\*     ["public.unique_objects.object_id", "public.unique_objects.project_id"],
\*     ondelete="CASCADE")
AttributeFK ==
    [tab |-> "unique_object_attributes", cols |-> <<2, 3>>,
     ref |-> "unique_objects", ondelete |-> "CASCADE"]

ForeignKeys_NoCameraFK == {CameraTimestampFK, AttributeFK}

\* Every foreign key of the metadata. unique_objects.project_id and
\* video_jobs.project_id carry none.
ForeignKeys == {CameraFK, CameraTimestampFK, AttributeFK}

\* relationship(..., cascade="all, delete-orphan" [, passive_deletes=True])
Relationships ==
    { [parent |-> "project_table", child |-> "project_camera", fk |-> CameraFK,
       passive_deletes |-> FALSE],
      [parent |-> "project_camera", child |-> "project_camera_timestamps",
       fk |-> CameraTimestampFK, passive_deletes |-> FALSE],
      [parent |-> "unique_objects", child |-> "unique_object_attributes",
       fk |-> AttributeFK, passive_deletes |-> TRUE] }

\* The unit of work deletes rows of dependent tables first.
DeleteOrder ==
    << "project_camera_timestamps", "project_camera", "project_table",
       "unique_object_attributes", "unique_objects" >>

FiveDays == 5

ServerDefault_NoInterval(col, ts) ==
    CASE col = "progress" -> 0
      [] col = "objects_found" -> 0
      [] col = "video_jobs_count" -> 0
      [] col = "deletion_status" -> "-"
      [] col = "status" -> "in_progress"
      [] col = "created_at" -> ts
      [] col = "expiration_time" -> ts

\* server_default of the columns of project_table, evaluated at ts.
ServerDefault(col, ts) ==
    CASE col = "progress" -> 0
      [] col = "objects_found" -> 0
      [] col = "video_jobs_count" -> 0
      [] col = "deletion_status" -> "-"
      [] col = "status" -> "in_progress"
      [] col = "created_at" -> ts
      [] col = "expiration_time" -> ts + FiveDays

ProjectColumns ==
    {"progress", "objects_found", "video_jobs_count", "deletion_status",
     "status", "created_at", "expiration_time"}

-----------------------------------------------------------------------------
(* The backend's enforcement of keys and foreign keys *)

NoRows == [t \in DataTables |-> {}]

RowsUnion(a, b) == [t \in DataTables |-> a[t] \cup b[t]]

RowsMinus(a, b) == [t \in DataTables |-> a[t] \ b[t]]

\* The parent key a row references through fk.
RefKey(fk, row) == [i \in 1..Len(fk.cols) |-> row[fk.cols[i]]]

\* INSERT of row into t against committed rows rs.
InsertResult(t, row, rs) ==
    IF \E old \in rs[t] : PrimaryKey(t, old) = PrimaryKey(t, row)
    THEN "IntegrityError"
    ELSE IF \E fk \in ForeignKeys : fk.tab = t /\ RefKey(fk, row) \notin rs[fk.ref]
    THEN "IntegrityError"
    ELSE "ok"

\* An INSERT waits while an open transaction has deleted, and not yet
\* committed, the parent row it references or a row with its key.
InsertWaits(t, row) ==
    \/ \E old \in sess.gone[t] : PrimaryKey(t, old) = PrimaryKey(t, row)
    \/ \E fk \in ForeignKeys : fk.tab = t /\ RefKey(fk, row) \in sess.gone[fk.ref]

\* ON DELETE CASCADE: rows deleted together with the rows del.
CascadeStep(rs, del) ==
    [t \in DataTables |->
        del[t] \cup
        UNION { { c \in rs[t] : RefKey(fk, c) \in del[fk.ref] } :
                fk \in { f \in ForeignKeys : f.tab = t /\ f.ondelete = "CASCADE" } }]

RECURSIVE CascadeClosure(_, _)
CascadeClosure(rs, del) ==
    LET n == CascadeStep(rs, del) IN
    IF n = del THEN del ELSE CascadeClosure(rs, n)

\* ON DELETE NO ACTION: a row that stays references a row that goes.
ViolatesNoAction(rs, del) ==
    \E fk \in ForeignKeys :
        /\ fk.ondelete = "NO ACTION"
        /\ \E c \in rs[fk.tab] \ del[fk.tab] : RefKey(fk, c) \in del[fk.ref]

-----------------------------------------------------------------------------
(* The ORM session *)

\* session.delete(obj): the rows the cascade of the relationships loads,
\* starting from the rows `have`; children of passive_deletes relationships
\* are left to the backend.
LoadStep(rs, have) ==
    [t \in DataTables |->
        have[t] \cup
        UNION { { c \in rs[t] : RefKey(rel.fk, c) \in have[rel.parent] } :
                rel \in { x \in Relationships :
                              x.child = t /\ ~x.passive_deletes } }]

RECURSIVE LoadCascade(_, _)
LoadCascade(rs, have) ==
    LET n == LoadStep(rs, have) IN
    IF n = have THEN have ELSE LoadCascade(rs, n)

\* flush(): one DELETE per table with rows to delete, dependents first.
DeleteStatements(del) ==
    LET order == SelectSeq(DeleteOrder, LAMBDA t : del[t] # {}) IN
    [i \in 1..Len(order) |-> [tab |-> order[i], rows |-> del[order[i]]]]

\* History only: the rows that reference the rows `have`, directly or
\* through other rows, by any foreign key.
DependentsStep(rs, have) ==
    [t \in DataTables |->
        have[t] \cup
        UNION { { c \in rs[t] : RefKey(fk, c) \in have[fk.ref] } :
                fk \in { f \in {CameraFK, CameraTimestampFK, AttributeFK} :
                             f.tab = t } }]

RECURSIVE Dependents(_, _)
Dependents(rs, have) ==
    LET n == DependentsStep(rs, have) IN
    IF n = have THEN have ELSE Dependents(rs, n)

CountRows(rs) == Cardinality(UNION { { <<t, r>> : r \in rs[t] } : t \in DataTables })

IdleSession ==
    [pc |-> "idle", target |-> [tab |-> "none", row |-> <<>>],
     loaded |-> NoRows, stmts |-> <<>>, gone |-> NoRows, known |-> 0]

\* Outcome of a statement; for a committed delete, `removed` counts the rows
\* that went and `raced` tells whether one of them was inserted after
\* session.delete() had been called (sess.known counts those present then).
Outcome(op, t, row, res) ==
    [op |-> op, tab |-> t, row |-> row, result |-> res, removed |-> 0,
     raced |-> FALSE]

NoStatementYet == Outcome("none", "none", <<>>, "none")

InitData ==
    /\ rows = NoRows
    /\ projectCols = <<>>
    /\ now = 0
    /\ nextAttrId = 1
    /\ sess = IdleSession
    /\ last = NoStatementYet
    /\ inserted = <<>>

\* An autocommitted INSERT by some session.
Insert(t, row) ==
    /\ ~InsertWaits(t, row)
    /\ LET res == InsertResult(t, row, rows) IN
       /\ rows' = IF res = "ok" THEN [rows EXCEPT ![t] = @ \cup {row}] ELSE rows
       /\ last' = Outcome("insert", t, row, res)
    /\ UNCHANGED <<now, sess>>

\* INSERT INTO project_table with the columns of `given` supplied and every
\* other column left to its server default.
InsertProject(p, given) ==
    /\ Insert("project_table", <<p>>)
    /\ IF <<p>> \in rows'["project_table"] /\ <<p>> \notin rows["project_table"]
       THEN /\ projectCols' =
                 [q \in DOMAIN projectCols \cup {p} |->
                    IF q = p
                    THEN [c \in ProjectColumns |->
                            IF c \in DOMAIN given THEN given[c]
                            ELSE ServerDefault(c, now)]
                    ELSE projectCols[q]]
            /\ inserted' =
                 [q \in DOMAIN inserted \cup {p} |->
                    IF q = p THEN [at |-> now, supplied |-> DOMAIN given]
                    ELSE inserted[q]]
       ELSE UNCHANGED <<projectCols, inserted>>
    /\ UNCHANGED <<provVars, nextAttrId>>

InsertCamera(p, c) ==
    /\ Insert("project_camera", <<p, c>>)
    /\ UNCHANGED <<provVars, projectCols, inserted, nextAttrId>>

InsertCameraTimestamp(p, c, t) ==
    /\ Insert("project_camera_timestamps", <<p, c, t>>)
    /\ UNCHANGED <<provVars, projectCols, inserted, nextAttrId>>

InsertUniqueObject(o, p) ==
    /\ Insert("unique_objects", <<o, p>>)
    /\ UNCHANGED <<provVars, projectCols, inserted, nextAttrId>>

\* attribute_id comes from the sequence, which advances even when the
\* INSERT fails.
InsertAttribute(o, p) ==
    /\ nextAttrId <= MaxAttrId
    /\ Insert("unique_object_attributes", <<nextAttrId, o, p>>)
    /\ nextAttrId' = nextAttrId + 1
    /\ UNCHANGED <<provVars, projectCols, inserted>>

\* session.delete(obj) for a persistent row of table t.
SessionDelete(t, row) ==
    /\ sess.pc = "idle"
    /\ row \in rows[t]
    /\ LET loaded == LoadCascade(rows, [NoRows EXCEPT ![t] = {row}]) IN
       sess' = [pc |-> "flush", target |-> [tab |-> t, row |-> row],
                loaded |-> [loaded EXCEPT ![t] = @ \ {row}],
                stmts |-> DeleteStatements(loaded), gone |-> NoRows,
                known |-> CountRows(Dependents(rows, [NoRows EXCEPT ![t] = {row}]))]
    /\ last' = Outcome("load", t, row, "ok")
    /\ UNCHANGED <<provVars, rows, projectCols, now, nextAttrId, inserted>>

\* flush(): the backend executes the next DELETE of the session.
ExecDelete ==
    /\ sess.pc = "flush"
    /\ sess.stmts # <<>>
    /\ LET st == Head(sess.stmts)
           asked == [NoRows EXCEPT ![st.tab] = st.rows \cap rows[st.tab]]
           del == CascadeClosure(rows, RowsUnion(sess.gone, asked))
       IN
       IF ViolatesNoAction(rows, del)
       THEN /\ sess' = IdleSession
            /\ last' = Outcome("delete", sess.target.tab, sess.target.row,
                                "IntegrityError")
       ELSE /\ sess' = [sess EXCEPT !.stmts = Tail(@), !.gone = del]
            /\ last' = Outcome("flush", st.tab, sess.target.row, "ok")
    /\ UNCHANGED <<provVars, rows, projectCols, now, nextAttrId, inserted>>

\* session.commit()
SessionCommit ==
    /\ sess.pc = "flush"
    /\ sess.stmts = <<>>
    /\ rows' = RowsMinus(rows, sess.gone)
    /\ projectCols' = [q \in { x \in DOMAIN projectCols :
                                  <<x>> \notin sess.gone["project_table"] } |->
                          projectCols[q]]
    /\ inserted' = [q \in { x \in DOMAIN inserted :
                               <<x>> \notin sess.gone["project_table"] } |->
                       inserted[q]]
    /\ last' = [Outcome("delete", sess.target.tab, sess.target.row, "ok")
                   EXCEPT !.removed = CountRows(sess.gone),
                          !.raced = CountRows(sess.gone) > sess.known]
    /\ sess' = IdleSession
    /\ UNCHANGED <<provVars, now, nextAttrId>>

\* Time passes on the backend.
Tick ==
    /\ now < MaxClock
    /\ now' = now + 1
    /\ UNCHANGED <<provVars, rows, projectCols, nextAttrId, sess, last, inserted>>

-----------------------------------------------------------------------------
(* Specifications *)

\* A fresh backend: nothing provisioned (the namespace may pre-exist).
Init ==
    /\ db \in {EmptyDb, [EmptyDb EXCEPT !.namespaces = {"public"}]}
    /\ InitCallers
    /\ InitData

Next == InitDbStep(1)

Spec == Init /\ [][Next]_vars

NextOverlap == \E r \in Runners : InitDbStep(r)

SpecOverlap == Init /\ [][NextOverlap]_vars

\* The tables exist: the backend has been provisioned.
InitProvisioned ==
    /\ InitCallers
    /\ db = [extensions |-> {"postgis", "timescaledb"},
             namespaces |-> {"public"},
             tables |-> TableNames,
             keys |-> UNION { TableKeys(t) : t \in TableNames },
             indexes |-> UNION { TableIndexes(t) : t \in TableNames },
             hypertables |-> {"detections_gis"}]
    /\ InitData

NextData ==
    \/ \E p \in ProjectIds : InsertProject(p, <<>>)
    \/ \E p \in ProjectIds, c \in CameraIds : InsertCamera(p, c)
    \/ \E p \in ProjectIds, c \in CameraIds, t \in FromTimes :
          InsertCameraTimestamp(p, c, t)
    \/ \E o \in ObjectIds, p \in ProjectIds : InsertUniqueObject(o, p)
    \/ \E o \in ObjectIds, p \in ProjectIds : InsertAttribute(o, p)
    \/ \E t \in DataTables : \E row \in rows[t] : SessionDelete(t, row)
    \/ ExecDelete
    \/ SessionCommit

SpecData == InitProvisioned /\ [][NextData]_vars

\* The columns an inserter supplies: created_at = ca and expiration_time =
\* ex when not negative, and progress, status, deletion_status when `others`.
Given(ca, ex, others) ==
    [c \in (IF ca >= 0 THEN {"created_at"} ELSE {})
            \cup (IF ex >= 0 THEN {"expiration_time"} ELSE {})
            \cup (IF others THEN {"progress", "status", "deletion_status"} ELSE {}) |->
        CASE c = "created_at" -> ca
          [] c = "expiration_time" -> ex
          [] c = "progress" -> 50
          [] c = "status" -> "done"
          [] c = "deletion_status" -> "deleted"]

NextDefaults ==
    \/ \E p \in ProjectIds, ca \in -1..MaxClock, ex \in {-1, 30}, others \in BOOLEAN :
          InsertProject(p, Given(ca, ex, others))
    \/ Tick

SpecDefaults == InitProvisioned /\ [][NextDefaults]_vars

-----------------------------------------------------------------------------
(* Properties of the schema *)

RowsOfProject(rs, ts, p) ==
    UNION { { r \in rs[t] : ProjectIdOf(t, r) = p } : t \in ts }

\* C3 as stated: once the delete of project p is committed, no row of
\* project_camera, project_camera_timestamps or unique_object_attributes
\* with project_id = p is left, whatever inserts ran beside the delete.
C3_ProjectCascadeAll ==
    [][\A p \in ProjectIds :
          (<<p>> \in rows["project_table"] /\ <<p>> \notin rows'["project_table"])
            => RowsOfProject(rows', {"project_camera", "project_camera_timestamps",
                                     "unique_object_attributes"}, p) = {}]_vars

\* C3 amended: once the delete of project p is committed, no row of
\* project_camera or project_camera_timestamps with project_id = p is left,
\* whatever inserts ran beside the delete (a delete that met a child
\* inserted after the session had read the children is rejected and never
\* commits); rows of unique_objects and unique_object_attributes carry no
\* reference to project_table and stay.
C3_ProjectCascadeCameras ==
    /\ [][\A p \in ProjectIds :
            (<<p>> \in rows["project_table"] /\ <<p>> \notin rows'["project_table"])
              => RowsOfProject(rows', {"project_camera", "project_camera_timestamps"},
                               p) = {}]_vars
    /\ []((last.op = "delete" /\ last.tab = "project_table" /\ last.result = "ok")
            => ~last.raced)

C3_Witness ==
    /\ last.op = "delete"
    /\ last.tab = "project_table"
    /\ last.result = "ok"
    /\ last.removed = 3
    /\ RowsOfProject(rows, {"project_camera", "project_camera_timestamps"},
                     last.row[1]) = {}
    /\ RowsOfProject(rows, {"unique_object_attributes"}, last.row[1]) # {}

ReferentialIntegrity ==
    /\ \A c \in rows["project_camera"] : <<c[1]>> \in rows["project_table"]
    /\ \A r \in rows["project_camera_timestamps"] :
          <<r[1], r[2]>> \in rows["project_camera"]
    /\ \A a \in rows["unique_object_attributes"] :
          <<a[2], a[3]>> \in rows["unique_objects"]

ParentMissing(t, row) ==
    \/ t = "project_camera" /\ <<row[1]>> \notin rows["project_table"]
    \/ t = "project_camera_timestamps" /\ <<row[1], row[2]>> \notin rows["project_camera"]
    \/ t = "unique_object_attributes" /\ <<row[2], row[3]>> \notin rows["unique_objects"]

\* C4: in every committed state each camera references an existing project,
\* each timestamp range an existing camera and each attribute an existing
\* unique object; and an insert of a child whose parent is missing fails with
\* a constraint violation and changes no table.
C4_ReferentialIntegrity ==
    /\ []ReferentialIntegrity
    /\ [][(last'.op = "insert" /\ ParentMissing(last'.tab, last'.row))
            => (last'.result = "IntegrityError" /\ rows' = rows)]_vars

C4_Witness ==
    /\ last.op = "insert"
    /\ last.tab = "project_camera_timestamps"
    /\ last.result = "IntegrityError"
    /\ <<last.row[1]>> \in rows["project_table"]
    /\ <<last.row[1], last.row[2]>> \notin rows["project_camera"]

\* C7 as stated: a project row inserted without expiration_time stores
\* created_at + 5 days there, whether created_at was defaulted or supplied;
\* progress, status and deletion_status default to 0, "in_progress", "-".
C7_ExpiryFromCreatedAt ==
    \A p \in DOMAIN projectCols :
        LET r == projectCols[p]
            g == inserted[p].supplied
        IN /\ "expiration_time" \notin g => r.expiration_time = r.created_at + 5
           /\ "progress" \notin g => r.progress = 0
           /\ "status" \notin g => r.status = "in_progress"
           /\ "deletion_status" \notin g => r.deletion_status = "-"

\* C7 amended: a project row inserted without expiration_time stores the
\* insertion time (CURRENT_TIMESTAMP) + 5 days there; that is created_at +
\* 5 days when created_at was defaulted too, and not when the inserter
\* supplied another created_at. progress, status and deletion_status
\* default to 0, "in_progress", "-".
C7_ExpiryFromInsertionTime ==
    \A p \in DOMAIN projectCols :
        LET r == projectCols[p]
            g == inserted[p].supplied
        IN /\ "expiration_time" \notin g => r.expiration_time = inserted[p].at + 5
           /\ "created_at" \notin g => r.created_at = inserted[p].at
           /\ ("expiration_time" \notin g /\ "created_at" \notin g)
                => r.expiration_time = r.created_at + 5
           /\ "progress" \notin g => r.progress = 0
           /\ "status" \notin g => r.status = "in_progress"
           /\ "deletion_status" \notin g => r.deletion_status = "-"

C7_Witness ==
    \E p \in DOMAIN projectCols :
        /\ inserted[p].supplied = {"created_at"}
        /\ projectCols[p].created_at # inserted[p].at
        /\ projectCols[p].expiration_time = inserted[p].at + 5
        /\ projectCols[p].status = "in_progress"

\* C8: deleting a unique object removes its attributes through the foreign
\* key's ON DELETE CASCADE: the session loads no attribute rows, emits the
\* one DELETE of the parent, is never rejected for a child, and once the
\* delete is committed no attribute referencing the key is left, whatever
\* attribute inserts ran beside it.
C8_AttributeCascade ==
    /\ [](sess.target.tab = "unique_objects"
            => (sess.loaded = NoRows /\ Len(sess.stmts) <= 1))
    /\ [](~(last.op = "delete" /\ last.tab = "unique_objects"
              /\ last.result = "IntegrityError"))
    /\ [][\A k \in rows["unique_objects"] \ rows'["unique_objects"] :
            \A a \in rows'["unique_object_attributes"] : <<a[2], a[3]>> # k]_vars

C8_Witness ==
    /\ last.op = "delete"
    /\ last.tab = "unique_objects"
    /\ last.result = "ok"
    /\ last.removed = 3
    /\ last.raced

====
